---- MODULE Spec2Model ----
(***************************************************************************)
(* PyRogueCOD (src/main.py): the dungeon, the entities with their Fighter  *)
(* and BasicMonster components, and the turn loop of __main__.             *)
(*                                                                         *)
(* The program is Python 2 (libtcodpy, "/" on ints is floor division,      *)
(* round() rounds halves away from zero).  libtcod itself is an external   *)
(* library: its console calls are left out, its field-of-view computation  *)
(* is modelled by its contract (radius bounded line of sight).             *)
(***************************************************************************)
EXTENDS Integers, Sequences, FiniteSets, TLC

VARIABLES
    map,            \* map[<<x, y>>]: the Tile at column x, row y
    objects,        \* the list of game objects; objects[1] is the player
    game_state,     \* 'playing' | 'dead'
    player_action,  \* what handle_keys returned last
    fov_recompute,  \* the FOV dirty flag
    fov_map,        \* the cells libtcod.map_is_in_fov answers True for
    pc,             \* where the main loop stands
    log,            \* what the last step printed and called, in order
    intent,         \* the key of this loop iteration and the state it met
    turns,          \* the objects whose take_turn ran in this loop iteration
    render_pos,     \* where the player stood at the previous render_all
    fired,          \* the objects whose death function has run
    rooms,          \* make_map's list of the rooms it has accepted
    attempts        \* the passes of make_map's loop made so far

vars == <<map, objects, game_state, player_action, fov_recompute, fov_map,
          pc, log, intent, turns, render_pos, fired, rooms, attempts>>

\* What only make_map writes.
genvars == <<rooms, attempts>>

(***************************************************************************)
(* Constants of the program and bounds of the model.                       *)
(***************************************************************************)
\* The map is scaled down from 80 x 45 (MAP_WIDTH, MAP_HEIGHT).
MAP_WIDTH == 7
MAP_HEIGHT == 7
ROOM_MIN_SIZE == 6
\* Scaled down from 10 so that a room fits the scaled map.
ROOM_MAX_SIZE == 6
\* The passes of make_map's loop, scaled down from 30.
MAX_ROOMS == 3
MAX_ROOM_MONSTERS == 3
\* The most monsters place_objects is let to draw for a room.
MaxMonsters == 2
TORCH_RADIUS == 3

None == <<>>
Some(v) == <<v>>
IsSome(o) == o # <<>>
Get(o) == o[1]

Abs(n) == IF n < 0 THEN -n ELSE n
Sign(n) == IF n > 0 THEN 1 ELSE IF n < 0 THEN -1 ELSE 0
Min(a, b) == IF a <= b THEN a ELSE b
Max(a, b) == IF a >= b THEN a ELSE b

Cells == (0 .. MAP_WIDTH - 1) \X (0 .. MAP_HEIGHT - 1)

(***************************************************************************)
(* Tile, Rect, and the carving of rooms.                                   *)
(***************************************************************************)
Tile(blocked) == [blocked |-> blocked, block_sight |-> blocked]

Rect(x, y, w, h) == [x1 |-> x, y1 |-> y, x2 |-> x + w, y2 |-> y + h]

\* Python 2: (a + b) / 2 on ints is floor division.
center(room) == <<(room.x1 + room.x2) \div 2, (room.y1 + room.y2) \div 2>>

\* A create_room that carves the walls as well.
create_room_with_walls(m, room) ==
    [c \in Cells |->
        IF /\ c[1] \in room.x1 .. room.x2
           /\ c[2] \in room.y1 .. room.y2
        THEN [blocked |-> FALSE, block_sight |-> FALSE]
        ELSE m[c]]

create_room(m, room) ==
    [c \in Cells |->
        IF /\ c[1] \in (room.x1 + 1) .. (room.x2 - 1)
           /\ c[2] \in (room.y1 + 1) .. (room.y2 - 1)
        THEN [blocked |-> FALSE, block_sight |-> FALSE]
        ELSE m[c]]

(***************************************************************************)
(* Objects and their components.  A component that may be None is kept as  *)
(* None or Some(component).                                                *)
(***************************************************************************)
Fighter(hp, defense, power, death_function) ==
    [max_hp |-> hp, hp |-> hp, defense |-> defense, power |-> power,
     death_function |-> death_function]

Object(x, y, char, name, color, blocks, fighter, ai) ==
    [name |-> name, blocks |-> blocks, x |-> x, y |-> y, char |-> char,
     color |-> color, fighter |-> fighter, ai |-> ai]

\* The global "player" is the first object of the list (objects = [player]).
player == 1

\* One entry of the log: a line printed, or a call observed.
Event(ev, who, tgt, amt, hp) ==
    [ev |-> ev, who |-> who, tgt |-> tgt, amt |-> amt, hp |-> hp]

\* The state the combat code reads and writes.
World(objs, state, lg, frd) ==
    [objects |-> objs, game_state |-> state, log |-> lg, fired |-> frd]

\* player_death that draws the corpse and leaves game_state as it was.
player_death_no_state(w, i) ==
    [w EXCEPT !.log = Append(@, Event("You died!", i, i, 0, 0)),
              !.objects[i].char = "%",
              !.objects[i].color = "dark_red",
              !.fired = @ \cup {i}]

player_death(w, i) ==
    [w EXCEPT !.log = Append(@, Event("You died!", i, i, 0, 0)),
              !.game_state = "dead",
              !.objects[i].char = "%",
              !.objects[i].color = "dark_red",
              !.fired = @ \cup {i}]

\* A monster_death that leaves the corpse in the way.
monster_death_blocks(w, i) ==
    [w EXCEPT !.log = Append(@, Event("is dead!", i, i, 0, 0)),
              !.objects[i].char = "%",
              !.objects[i].color = "dark_red",
              !.objects[i].fighter = None,
              !.objects[i].ai = None,
              !.objects[i].name = "remains of " \o @,
              !.fired = @ \cup {i}]

monster_death(w, i) ==
    [w EXCEPT !.log = Append(@, Event("is dead!", i, i, 0, 0)),
              !.objects[i].char = "%",
              !.objects[i].color = "dark_red",
              !.objects[i].blocks = FALSE,
              !.objects[i].fighter = None,
              !.objects[i].ai = None,
              !.objects[i].name = "remains of " \o @,
              !.fired = @ \cup {i}]

\* function(self.owner), for the death_function of a Fighter (None: "").
death_call(w, i, function) ==
    CASE function = "player_death" -> player_death(w, i)
      [] function = "monster_death" -> monster_death(w, i)
      [] OTHER -> w

\* take_damage subtracting whatever damage is not 0 (a negative one heals).
take_damage_any(w, i, damage) ==
    LET f == Get(w.objects[i].fighter)
        hp1 == IF damage # 0 THEN f.hp - damage ELSE f.hp
        w1 == [w EXCEPT !.objects[i].fighter = Some([f EXCEPT !.hp = hp1]),
                        !.log = Append(@, Event("take_damage", i, i, damage, hp1))]
    IN  IF hp1 <= 0
        THEN death_call(w1, i, f.death_function)
        ELSE w1

\* Fighter.take_damage, on the fighter of objects[i].
take_damage(w, i, damage) ==
    LET f == Get(w.objects[i].fighter)
        hp1 == IF damage > 0 THEN f.hp - damage ELSE f.hp
        w1 == [w EXCEPT !.objects[i].fighter = Some([f EXCEPT !.hp = hp1]),
                        !.log = Append(@, Event("take_damage", i, i, damage, hp1))]
    IN  IF hp1 <= 0
        THEN death_call(w1, i, f.death_function)
        ELSE w1

\* Fighter.attack, of the fighter of objects[a] on objects[t].  The code
\* tests "if damage:", which is true of every damage but 0.
attack(w, a, t) ==
    LET damage == Get(w.objects[a].fighter).power
                    - Get(w.objects[t].fighter).defense
    IN  IF damage # 0
        THEN take_damage(
                [w EXCEPT !.log = Append(@, Event("attacks for", a, t, damage, 0))],
                t, damage)
        ELSE [w EXCEPT !.log = Append(@, Event("no effect", a, t, damage, 0))]

(***************************************************************************)
(* Movement.                                                               *)
(***************************************************************************)
\* A Python list index: a negative index counts from the end.
PyIndex(i, n) == IF i < 0 THEN i + n ELSE i

\* map[x][y]
TileAt(m, x, y) == m[<<PyIndex(x, MAP_WIDTH), PyIndex(y, MAP_HEIGHT)>>]

is_blocked(m, objs, x, y) ==
    \/ TileAt(m, x, y).blocked
    \/ \E k \in 1 .. Len(objs) :
          objs[k].blocks /\ objs[k].x = x /\ objs[k].y = y

\* Object.move, of objects[i].
move(m, objs, i, dx, dy) ==
    IF ~is_blocked(m, objs, objs[i].x + dx, objs[i].y + dy)
    THEN [objs EXCEPT ![i].x = @ + dx, ![i].y = @ + dy]
    ELSE objs

\* A rounding that needs more than 1/2 to leave zero: 3/4, that is
\* 16 * d * d >= 9 * dist2.
RoundUnit_late(d, dist2) == IF 16 * d * d >= 9 * dist2 THEN Sign(d) ELSE 0

\* int(round(d / distance)) for distance = sqrt(dist2) > 0: the quotient lies
\* in [-1, 1] and rounds away from zero exactly when |d| / distance >= 1/2,
\* that is when 4 * d * d >= dist2.
RoundUnit(d, dist2) == IF 4 * d * d >= dist2 THEN Sign(d) ELSE 0

\* Object.move_towards, of objects[i].
move_towards(m, objs, i, target_x, target_y) ==
    LET dx == target_x - objs[i].x
        dy == target_y - objs[i].y
        dist2 == dx * dx + dy * dy
    IN  move(m, objs, i, RoundUnit(dx, dist2), RoundUnit(dy, dist2))

\* The square of Object.distance_to.
distance2_to(objs, i, other) ==
    LET dx == objs[other].x - objs[i].x
        dy == objs[other].y - objs[i].y
    IN  dx * dx + dy * dy

(***************************************************************************)
(* Field of view.  libtcod.map_compute_fov is library code; what the       *)
(* program relies on is kept: a cell is in view when it lies within the    *)
(* radius of the origin and no sight-blocking tile stands on the line      *)
(* between (a wall that is itself in view is lit: FOV_LIGHT_WALLS).        *)
(***************************************************************************)
Between(ox, oy, x, y) ==
    {t \in (Min(ox, x) .. Max(ox, x)) \X (Min(oy, y) .. Max(oy, y)) :
        /\ t # <<ox, oy>>
        /\ t # <<x, y>>
        /\ 2 * Abs((t[1] - ox) * (y - oy) - (t[2] - oy) * (x - ox))
              <= Max(Abs(x - ox), Abs(y - oy))}

map_compute_fov(m, ox, oy, radius) ==
    {c \in Cells :
        /\ (c[1] - ox) * (c[1] - ox) + (c[2] - oy) * (c[2] - oy) <= radius * radius
        /\ \A t \in Between(ox, oy, c[1], c[2]) : ~m[t].block_sight}

(***************************************************************************)
(* The monsters' turn and the player's.                                    *)
(***************************************************************************)
\* A take_turn that attacks the player whatever hp it has left.
take_turn_no_hp_test(m, fov, w, i) ==
    LET monster == w.objects[i]
    IN  IF <<monster.x, monster.y>> \in fov
        THEN IF distance2_to(w.objects, i, player) >= 4
             THEN [w EXCEPT !.objects =
                       move_towards(m, @, i, @[player].x, @[player].y)]
             ELSE attack(w, i, player)
        ELSE w

\* BasicMonster.take_turn, of the ai of objects[i]; fov is fov_map.
take_turn(m, fov, w, i) ==
    LET monster == w.objects[i]
    IN  IF <<monster.x, monster.y>> \in fov
        THEN IF distance2_to(w.objects, i, player) >= 4
             THEN [w EXCEPT !.objects =
                       move_towards(m, @, i, @[player].x, @[player].y)]
             ELSE IF Get(w.objects[player].fighter).hp > 0
                  THEN attack(w, i, player)
                  ELSE w
        ELSE w

\* A search for the target that finds nobody.
fighter_at_none(objs, x, y) == 0

\* The first object with a Fighter at (x, y), 0 when there is none.
fighter_at(objs, x, y) ==
    LET hits == {k \in 1 .. Len(objs) :
                    IsSome(objs[k].fighter) /\ objs[k].x = x /\ objs[k].y = y}
    IN  IF hits = {} THEN 0 ELSE CHOOSE k \in hits : \A j \in hits : k <= j

\* player_move_or_attack that never sets fov_recompute.
player_move_or_attack_no_flag(m, w, recompute, dx, dy) ==
    LET x == w.objects[player].x + dx
        y == w.objects[player].y + dy
        target == fighter_at(w.objects, x, y)
    IN  IF target # 0
        THEN [world |-> attack(w, player, target), fov_recompute |-> recompute]
        ELSE [world |-> [w EXCEPT !.objects = move(m, @, player, dx, dy)],
              fov_recompute |-> recompute]

\* player_move_or_attack: the world and fov_recompute after it.
player_move_or_attack(m, w, recompute, dx, dy) ==
    LET x == w.objects[player].x + dx
        y == w.objects[player].y + dy
        target == fighter_at(w.objects, x, y)
    IN  IF target # 0
        THEN [world |-> attack(w, player, target), fov_recompute |-> recompute]
        ELSE [world |-> [w EXCEPT !.objects = move(m, @, player, dx, dy)],
              fov_recompute |-> TRUE]

(***************************************************************************)
(* Generation, as far as the first room: make_map carves it, place_objects *)
(* fills it, and the player is put on its center.                          *)
(***************************************************************************)
orc(x, y) ==
    Object(x, y, "o", "orc", "desaturated_green", TRUE,
           Some(Fighter(10, 0, 3, "monster_death")), Some("BasicMonster"))

troll(x, y) ==
    Object(x, y, "T", "troll", "darker_green", TRUE,
           Some(Fighter(16, 1, 4, "monster_death")), Some("BasicMonster"))

\* One pass of the loop of place_objects: the lists a draw can leave.
place_one(m, objs, room) ==
    {IF is_blocked(m, objs, d[1], d[2])
     THEN objs
     ELSE Append(objs, IF d[3] = "orc" THEN orc(d[1], d[2]) ELSE troll(d[1], d[2])) :
        d \in (room.x1 .. room.x2) \X (room.y1 .. room.y2) \X {"orc", "troll"}}

RECURSIVE place_n(_, _, _, _)
place_n(m, objs, room, n) ==
    IF n = 0
    THEN {objs}
    ELSE UNION {place_n(m, o, room, n - 1) : o \in place_one(m, objs, room)}

\* place_objects with num_monsters drawn from 0 .. most: the lists it can
\* leave, over its random draws.
place_up_to(m, objs, room, most) ==
    UNION {place_n(m, objs, room, n) : n \in 0 .. most}

place_objects(m, objs, room) ==
    place_up_to(m, objs, room, Min(MAX_ROOM_MONSTERS, MaxMonsters))

\* The rooms a pass of make_map can draw with sides from lo to hi.
RoomDraws(lo, hi) ==
    UNION {{Rect(x, y, wh[1], wh[2]) :
               x \in 0 .. (MAP_WIDTH - wh[1] - 1),
               y \in 0 .. (MAP_HEIGHT - wh[2] - 1)} :
           wh \in (lo .. hi) \X (lo .. hi)}

\* The rooms the first pass of make_map can draw.
FirstRooms == RoomDraws(ROOM_MIN_SIZE, ROOM_MAX_SIZE)

\* Scaled down from the hp=30 the player is built with.
PLAYER_HP == 3

NewPlayer ==
    Object(0, 0, "@", "player", "white", TRUE,
           Some(Fighter(PLAYER_HP, 2, 5, "player_death")), None)

NoIntent == [key |-> "", state |-> ""]

(***************************************************************************)
(* The main loop.                                                          *)
(***************************************************************************)
Init ==
    \E room \in FirstRooms :
       /\ map = create_room([c \in Cells |-> Tile(TRUE)], room)
       /\ \E objs \in place_objects(map, <<NewPlayer>>, room) :
             objects = [objs EXCEPT ![player].x = center(room)[1],
                                    ![player].y = center(room)[2]]
       /\ rooms = <<room>>
       /\ attempts = MAX_ROOMS
       /\ game_state = "playing"
       /\ player_action = "None"
       /\ fov_recompute = TRUE
       /\ fov_map = {}
       /\ pc = "render"
       /\ log = <<>>
       /\ intent = NoIntent
       /\ turns = <<>>
       /\ render_pos = None
       /\ fired = {}

\* render_all: the FOV is recomputed when the flag is set.  What it draws
\* changes nothing the program reads again but the tiles' explored bit,
\* which is left out.
Render ==
    /\ pc = "render"
    /\ IF fov_recompute
       THEN /\ fov_recompute' = FALSE
            /\ fov_map' = map_compute_fov(map, objects[player].x,
                                          objects[player].y, TORCH_RADIUS)
            /\ log' = <<Event("map_compute_fov", player, player,
                              objects[player].x, objects[player].y)>>
       ELSE /\ UNCHANGED <<fov_recompute, fov_map>>
            /\ log' = <<>>
    /\ render_pos' = Some(<<objects[player].x, objects[player].y>>)
    /\ pc' = "keys"
    /\ intent' = NoIntent
    /\ turns' = <<>>
    /\ UNCHANGED <<map, objects, game_state, player_action, fired, genvars>>

MoveKeys == {"up", "down", "left", "right"}
Keys == MoveKeys \cup {"alt+enter", "escape", "other"}

KeyDx(key) == CASE key = "left" -> -1 [] key = "right" -> 1 [] OTHER -> 0
KeyDy(key) == CASE key = "up" -> -1 [] key = "down" -> 1 [] OTHER -> 0

\* handle_keys without the test of game_state.
handle_keys_any_state(m, w, recompute, key) ==
    IF key = "escape"
    THEN [ret |-> "exit", world |-> w, fov_recompute |-> recompute]
    ELSE IF key \in MoveKeys
         THEN LET r == player_move_or_attack(m, w, recompute,
                                             KeyDx(key), KeyDy(key))
              IN  [ret |-> "None", world |-> r.world,
                   fov_recompute |-> r.fov_recompute]
         ELSE [ret |-> "didnt-take-turn", world |-> w,
               fov_recompute |-> recompute]

\* handle_keys: what it returns and the state it leaves.
handle_keys(m, w, recompute, key) ==
    IF key = "escape"
    THEN [ret |-> "exit", world |-> w, fov_recompute |-> recompute]
    ELSE IF w.game_state = "playing"
         THEN IF key \in MoveKeys
              THEN LET r == player_move_or_attack(m, w, recompute,
                                                  KeyDx(key), KeyDy(key))
                   IN  [ret |-> "None", world |-> r.world,
                        fov_recompute |-> r.fov_recompute]
              ELSE [ret |-> "didnt-take-turn", world |-> w,
                    fov_recompute |-> recompute]
         ELSE [ret |-> "None", world |-> w, fov_recompute |-> recompute]

\* The guard of the monsters' turn without the test of player_action.
monsters_act_any_action(state, action) == state = "playing"

\* Whether the main loop lets the monsters take their turn.
monsters_act(state, action) == state = "playing" /\ action # "didnt-take-turn"

\* The main loop from handle_keys to the test that guards the monsters' turn.
HandleKeys(key) ==
    /\ pc = "keys"
    /\ LET r == handle_keys(map, World(objects, game_state, <<>>, fired),
                            fov_recompute, key)
       IN  /\ objects' = r.world.objects
           /\ game_state' = r.world.game_state
           /\ log' = r.world.log
           /\ fired' = r.world.fired
           /\ fov_recompute' = r.fov_recompute
           /\ player_action' = r.ret
           /\ pc' = IF r.ret = "exit" THEN "done"
                    ELSE IF monsters_act(r.world.game_state, r.ret)
                         THEN "monsters" ELSE "render"
    /\ intent' = [key |-> key, state |-> game_state]
    /\ UNCHANGED <<map, fov_map, turns, render_pos, genvars>>

\* "for obj in objects: if obj.ai: obj.ai.take_turn()", from position k on:
\* the world and the objects whose take_turn ran.
RECURSIVE monsters_loop(_, _, _, _)
monsters_loop(m, fov, r, k) ==
    IF k > Len(r.world.objects)
    THEN r
    ELSE IF IsSome(r.world.objects[k].ai)
         THEN monsters_loop(m, fov,
                  [world |-> take_turn(m, fov,
                                 [r.world EXCEPT !.log =
                                     Append(@, Event("take_turn", k, k, 0, 0))], k),
                   turns |-> Append(r.turns, k)],
                  k + 1)
         ELSE monsters_loop(m, fov, r, k + 1)

MonstersTurn ==
    /\ pc = "monsters"
    /\ LET r == monsters_loop(map, fov_map,
                    [world |-> World(objects, game_state, <<>>, fired),
                     turns |-> <<>>], 1)
       IN  /\ objects' = r.world.objects
           /\ game_state' = r.world.game_state
           /\ log' = r.world.log
           /\ fired' = r.world.fired
           /\ turns' = r.turns
    /\ pc' = "render"
    /\ UNCHANGED <<map, player_action, fov_recompute, fov_map, intent,
                   render_pos, genvars>>

\* libtcod.console_is_window_closed() ends the loop.
WindowClosed ==
    /\ pc = "render"
    /\ pc' = "done"
    /\ UNCHANGED <<map, objects, game_state, player_action, fov_recompute,
                   fov_map, log, intent, turns, render_pos, fired, genvars>>

Next ==
    \/ Render
    \/ \E key \in Keys : HandleKeys(key)
    \/ MonstersTurn
    \/ WindowClosed

Spec == Init /\ [][Next]_vars

(***************************************************************************)
(* make_map, pass by pass of its loop, on rooms small enough for several   *)
(* of them to fit the map.                                                 *)
(***************************************************************************)
\* The sides of the rooms drawn here, scaled down from ROOM_MIN_SIZE and
\* ROOM_MAX_SIZE, and the most monsters drawn in one run of make_map.
GenMinSize == 2
GenMaxSize == 3
GenMonsters == 1

\* An intersect that lets rooms share a wall.
intersect_strict(self, other) ==
    /\ self.x1 < other.x2
    /\ self.x2 > other.x1
    /\ self.y1 < other.y2
    /\ self.y2 > other.y1

intersect(self, other) ==
    /\ self.x1 <= other.x2
    /\ self.x2 >= other.x1
    /\ self.y1 <= other.y2
    /\ self.y2 >= other.y1

\* A create_h_tunnel that carves one tile beyond each end.
create_h_tunnel_long(m, x1, x2, y) ==
    [c \in Cells |->
        IF c[1] \in (Min(x1, x2) - 1) .. (Max(x1, x2) + 1) /\ c[2] = y
        THEN [m[c] EXCEPT !.blocked = FALSE, !.block_sight = FALSE]
        ELSE m[c]]

create_h_tunnel(m, x1, x2, y) ==
    [c \in Cells |->
        IF c[1] \in Min(x1, x2) .. Max(x1, x2) /\ c[2] = y
        THEN [m[c] EXCEPT !.blocked = FALSE, !.block_sight = FALSE]
        ELSE m[c]]

create_v_tunnel(m, y1, y2, x) ==
    [c \in Cells |->
        IF c[2] \in Min(y1, y2) .. Max(y1, y2) /\ c[1] = x
        THEN [m[c] EXCEPT !.blocked = FALSE, !.block_sight = FALSE]
        ELSE m[c]]

\* A tunnel that turns at the wrong corner.
connect_wrong_corner(m, prev, new, coin) ==
    IF coin = 1
    THEN create_v_tunnel(create_h_tunnel(m, prev[1], new[1], new[2]),
                         prev[2], new[2], new[1])
    ELSE create_h_tunnel(create_v_tunnel(m, prev[2], new[2], new[1]),
                         prev[1], new[1], new[2])

\* The tunnel from the previous room's center to the new room's.
connect(m, prev, new, coin) ==
    IF coin = 1
    THEN create_v_tunnel(create_h_tunnel(m, prev[1], new[1], prev[2]),
                         prev[2], new[2], new[1])
    ELSE create_h_tunnel(create_v_tunnel(m, prev[2], new[2], prev[1]),
                         prev[1], new[1], new[2])

InitGen ==
    /\ map = [c \in Cells |-> Tile(TRUE)]
    /\ objects = <<NewPlayer>>
    /\ rooms = <<>>
    /\ attempts = 0
    /\ game_state = "playing"
    /\ player_action = "None"
    /\ fov_recompute = TRUE
    /\ fov_map = {}
    /\ pc = "make_map"
    /\ log = <<>>
    /\ intent = NoIntent
    /\ turns = <<>>
    /\ render_pos = None
    /\ fired = {}

\* One pass of the loop of make_map, for the room and the coin it draws.
MakeRoom(new_room, coin) ==
    /\ pc = "make_map"
    /\ attempts < MAX_ROOMS
    /\ attempts' = attempts + 1
    /\ pc' = IF attempts + 1 = MAX_ROOMS THEN "generated" ELSE "make_map"
    /\ IF \E k \in 1 .. Len(rooms) : intersect(new_room, rooms[k])
       THEN UNCHANGED <<map, objects, rooms>>
       ELSE LET carved == create_room(map, new_room)
                num_rooms == Len(rooms)
                most == Min(MAX_ROOM_MONSTERS, GenMonsters - (Len(objects) - 1))
            IN  /\ \E objs \in place_up_to(carved, objects, new_room, most) :
                      objects' = IF num_rooms = 0
                                 THEN [objs EXCEPT ![player].x = center(new_room)[1],
                                                   ![player].y = center(new_room)[2]]
                                 ELSE objs
                /\ map' = IF num_rooms = 0
                          THEN carved
                          ELSE connect(carved, center(rooms[num_rooms]),
                                       center(new_room), coin)
                /\ rooms' = Append(rooms, new_room)
    /\ UNCHANGED <<game_state, player_action, fov_recompute, fov_map, log,
                   intent, turns, render_pos, fired>>

NextGen ==
    \E new_room \in RoomDraws(GenMinSize, GenMaxSize), coin \in 0 .. 1 :
       MakeRoom(new_room, coin)

SpecGen == InitGen /\ [][NextGen]_vars

(***************************************************************************)
(* is_blocked on its own: any pair of coordinates, in the grid or out of   *)
(* it, asked of a generated map.                                           *)
(***************************************************************************)
\* How far outside the grid the coordinates asked go.
MaxOutside == 1

\* Python's list index: i is taken from the end when negative, and an
\* IndexError is raised outside -n .. n - 1.
ValidIndex(i, n) == -n <= i /\ i < n

\* What a call of is_blocked(x, y) comes to: its return value or the
\* exception that map[x][y] raises.
is_blocked_call(m, objs, x, y) ==
    IF ValidIndex(x, MAP_WIDTH) /\ ValidIndex(y, MAP_HEIGHT)
    THEN IF is_blocked(m, objs, x, y) THEN "True" ELSE "False"
    ELSE "IndexError"

InitTiles ==
    \E room \in FirstRooms :
       /\ map = create_room([c \in Cells |-> Tile(TRUE)], room)
       /\ objects = <<[NewPlayer EXCEPT !.x = center(room)[1],
                                        !.y = center(room)[2]]>>
       /\ rooms = <<room>>
       /\ attempts = MAX_ROOMS
       /\ game_state = "playing"
       /\ player_action = "None"
       /\ fov_recompute = TRUE
       /\ fov_map = {}
       /\ pc = "tiles"
       /\ log = <<>>
       /\ intent = NoIntent
       /\ turns = <<>>
       /\ render_pos = None
       /\ fired = {}

CallIsBlocked(x, y) ==
    /\ pc = "tiles"
    /\ log' = <<[ev |-> "is_blocked", x |-> x, y |-> y,
                 ret |-> is_blocked_call(map, objects, x, y)]>>
    /\ UNCHANGED <<map, objects, game_state, player_action, fov_recompute,
                   fov_map, pc, intent, turns, render_pos, fired, genvars>>

NextTiles ==
    \E x \in (-MAP_WIDTH - MaxOutside) .. (MAP_WIDTH - 1 + MaxOutside),
       y \in (-MAP_HEIGHT - MaxOutside) .. (MAP_HEIGHT - 1 + MaxOutside) :
       CallIsBlocked(x, y)

SpecTiles == InitTiles /\ [][NextTiles]_vars

(***************************************************************************)
(* move_towards on its own: a monster anywhere in the room hunts a player  *)
(* anywhere else in it, with or without a second monster in the way.       *)
(***************************************************************************)
hunter == 2

\* The (dx, dy) that move_towards hands to move.
step_towards(objs, i, target_x, target_y) ==
    LET dx == target_x - objs[i].x
        dy == target_y - objs[i].y
        dist2 == dx * dx + dy * dy
    IN  <<RoundUnit(dx, dist2), RoundUnit(dy, dist2)>>

InitHunt ==
    \E room \in FirstRooms :
       /\ map = create_room([c \in Cells |-> Tile(TRUE)], room)
       /\ \E p, q \in {c \in Cells : ~map[c].blocked} :
             /\ p # q
             /\ \E others \in {<<>>} \cup
                                {<<orc(b[1], b[2])>> :
                                    b \in {c \in Cells : ~map[c].blocked} \ {p, q}} :
                   objects = <<[NewPlayer EXCEPT !.x = p[1], !.y = p[2]],
                               orc(q[1], q[2])>> \o others
       /\ rooms = <<room>>
       /\ attempts = MAX_ROOMS
       /\ game_state = "playing"
       /\ player_action = "None"
       /\ fov_recompute = FALSE
       /\ fov_map = {}
       /\ pc = "hunt"
       /\ log = <<>>
       /\ intent = NoIntent
       /\ turns = <<>>
       /\ render_pos = None
       /\ fired = {}

\* The first branch of take_turn, for the hunter.
Hunt ==
    /\ pc = "hunt"
    /\ distance2_to(objects, hunter, player) >= 4
    /\ objects' = move_towards(map, objects, hunter,
                               objects[player].x, objects[player].y)
    /\ LET step == step_towards(objects, hunter,
                                objects[player].x, objects[player].y)
       IN  log' = <<[ev |-> "move_towards", who |-> hunter,
                     dx |-> step[1], dy |-> step[2]]>>
    /\ UNCHANGED <<map, game_state, player_action, fov_recompute, fov_map, pc,
                   intent, turns, render_pos, fired, genvars>>

NextHunt == Hunt

SpecHunt == InitHunt /\ [][NextHunt]_vars

(***************************************************************************)
(* The Fighter component on its own: an attacker of any power and a        *)
(* defender of any hp, defense and death function within the bounds, and   *)
(* any order of attack and take_damage calls on the defender.              *)
(***************************************************************************)
MaxStat == 3
MaxHp == 4
MaxDamage == 3

attacker == 1
defender == 2

InitCombat ==
    /\ \E power \in 0 .. MaxStat, hp \in 1 .. MaxHp, defense \in 0 .. MaxStat,
          death_function \in {"player_death", "monster_death"} :
          objects = <<Object(0, 0, "a", "attacker", "white", TRUE,
                             Some(Fighter(MaxHp, 0, power, "monster_death")), None),
                      Object(1, 0, "d", "defender", "white", TRUE,
                             Some(Fighter(hp, defense, 0, death_function)), None)>>
    /\ map = [c \in Cells |-> Tile(TRUE)]
    /\ rooms = <<>>
    /\ attempts = 0
    /\ game_state = "playing"
    /\ player_action = "None"
    /\ fov_recompute = TRUE
    /\ fov_map = {}
    /\ pc = "combat"
    /\ log = <<>>
    /\ intent = NoIntent
    /\ turns = <<>>
    /\ render_pos = None
    /\ fired = {}

\* The calls stop once the defender's hp has sunk below -MaxHp.
Standing(i) ==
    /\ IsSome(objects[i].fighter)
    /\ Get(objects[i].fighter).hp >= -MaxHp

CombatStep(w) ==
    /\ objects' = w.objects
    /\ game_state' = w.game_state
    /\ log' = w.log
    /\ fired' = w.fired
    /\ UNCHANGED <<map, player_action, fov_recompute, fov_map, pc, intent,
                   turns, render_pos, genvars>>

\* objects[attacker].fighter.attack(objects[defender])
CallAttack ==
    /\ pc = "combat"
    /\ Standing(defender)
    /\ CombatStep(attack(World(objects, game_state, <<>>, fired),
                         attacker, defender))

\* objects[defender].fighter.take_damage(damage)
CallTakeDamage(damage) ==
    /\ pc = "combat"
    /\ Standing(defender)
    /\ CombatStep(take_damage(World(objects, game_state, <<>>, fired),
                              defender, damage))

\* The same call once the defender's fighter is None: Python raises
\* AttributeError and nothing changes.
CallOnNone ==
    /\ pc = "combat"
    /\ objects[defender].fighter = None
    /\ CombatStep(World(objects, game_state,
                        <<Event("AttributeError", defender, defender, 0, 0)>>,
                        fired))

NextCombat ==
    \/ CallAttack
    \/ \E damage \in (-MaxDamage) .. MaxDamage : CallTakeDamage(damage)
    \/ CallOnNone

SpecCombat == InitCombat /\ [][NextCombat]_vars

(***************************************************************************)
(* Properties.                                                             *)
(***************************************************************************)
Hp(objs, i) == Get(objs[i].fighter).hp

HasEvent(lg, ev) == \E k \in 1 .. Len(lg) : lg[k].ev = ev

\* The hp of the defender's Fighter after a call that took damage: the
\* Fighter is still on the object, or monster_death has taken it off and
\* the hp is the one take_damage left.
DefenderHpAfter ==
    IF IsSome(objects'[defender].fighter)
    THEN Hp(objects', defender)
    ELSE log'[CHOOSE k \in 1 .. Len(log') : log'[k].ev = "take_damage"].hp

\* C1: for every attacker power P and defender defense D, attack lowers the
\* defender's hp by exactly P - D when P - D > 0 and leaves it unchanged
\* when P - D <= 0; an attack never raises hp.
C1_AttackDamage ==
    [][(Len(log') >= 1 /\ log'[1].ev \in {"attacks for", "no effect"}) =>
          LET P == Get(objects[attacker].fighter).power
              D == Get(objects[defender].fighter).defense
              before == Hp(objects, defender)
              after == IF log'[1].ev = "no effect" THEN Hp(objects', defender)
                       ELSE DefenderHpAfter
          IN  /\ P - D > 0 => after = before - (P - D)
              /\ P - D <= 0 => after = before
              /\ after <= before]_vars

\* An attack of negative damage has run and the defender's hp is what it was.
C1_Witness ==
    /\ pc = "combat"
    /\ Len(log) >= 1
    /\ log[1].ev = "attacks for"
    /\ log[1].amt < 0
    /\ IsSome(objects[defender].fighter)
    /\ Hp(objects, defender) = Get(objects[defender].fighter).max_hp

\* C2: attack reports a hit and calls take_damage if and only if
\* damage = power - defense is > 0, and reports no effect without calling
\* take_damage whenever damage <= 0, negative damage included.
C2_HitIffPositive ==
    \A k \in 1 .. Len(log) :
       /\ log[k].ev = "attacks for" => log[k].amt > 0
       /\ log[k].ev = "no effect" =>
             /\ log[k].amt <= 0
             /\ (k = Len(log) \/ log[k + 1].ev # "take_damage")

\* C3: once a fighter's hp has reached <= 0 and its death handler has run,
\* a further take_damage on that entity changes nothing and does not run
\* the death handler again.
C3_DeathIdempotent ==
    [][\A i \in fired :
          /\ objects'[i] = objects[i]
          /\ \A k \in 1 .. Len(log') :
                log'[k].who = i => log'[k].ev \notin {"You died!", "is dead!"}]_vars

Pos(objs, i) == <<objs[i].x, objs[i].y>>

\* C4: game_state only ever changes from 'playing' to 'dead', in the step
\* in which the player's hp first becomes <= 0, and never back; at every
\* turn boundary game_state is 'dead' if and only if the player's hp is <= 0.
C4_StateFollowsHp ==
    /\ [](pc = "render" => (game_state = "dead" <=> Hp(objects, player) <= 0))
    /\ [][/\ game_state' # game_state =>
                /\ game_state = "playing"
                /\ game_state' = "dead"
                /\ Hp(objects, player) > 0
                /\ Hp(objects', player) <= 0
          /\ (Hp(objects, player) > 0 /\ Hp(objects', player) <= 0) =>
                (game_state = "playing" /\ game_state' = "dead")
          /\ game_state = "dead" => game_state' = "dead"]_vars

\* The player has died in the monsters' turn and the loop is back at render.
C4_Witness ==
    /\ pc = "render"
    /\ game_state = "dead"
    /\ Hp(objects, player) <= 0
    /\ HasEvent(log, "You died!")

\* C5: while game_state is 'dead', every intent other than Exit leaves every
\* entity's position, hp, components and blocking flag and every tile
\* unchanged, does not set the FOV dirty flag, and is followed by no
\* monster turn.
C5_DeadIgnoresIntents ==
    [][(pc = "keys" /\ game_state = "dead" /\ intent'.key # "escape") =>
          /\ objects' = objects
          /\ map' = map
          /\ fov_recompute' = fov_recompute
          /\ game_state' = "dead"
          /\ pc' = "render"
          /\ turns' = <<>>]_vars

\* A movement key has been handled while dead.
C5_Witness ==
    /\ pc = "render"
    /\ intent.state = "dead"
    /\ intent.key \in MoveKeys

\* C6: at every turn boundary every entity that still has a Fighter
\* satisfies 0 <= hp <= max_hp; the player's hp is never negative.
C6_HpInRange ==
    pc = "render" =>
       \A i \in 1 .. Len(objects) :
          IsSome(objects[i].fighter) =>
             /\ 0 <= Hp(objects, i)
             /\ Hp(objects, i) <= Get(objects[i].fighter).max_hp

\* The objects that have an AI.
WithAI(objs) == {k \in 1 .. Len(objs) : IsSome(objs[k].ai)}

\* C7: while playing, every movement intent (a move, a blocked move or an
\* attack) is followed in the same turn by exactly one take_turn call for
\* each entity that has an AI, in registry order; an Exit, a display toggle
\* or an unrecognized key is followed by no take_turn call.
C7_OneTurnEach ==
    (pc \in {"render", "done"} /\ intent # NoIntent) =>
       /\ (intent.state = "playing" /\ intent.key \in MoveKeys) =>
             /\ {turns[k] : k \in 1 .. Len(turns)} = WithAI(objects)
             /\ \A j, k \in 1 .. Len(turns) : j < k => turns[j] < turns[k]
       /\ intent.key \notin MoveKeys => turns = <<>>

\* A movement intent was followed by the turns of two monsters.
C7_Witness ==
    /\ pc = "render"
    /\ intent.state = "playing"
    /\ intent.key \in MoveKeys
    /\ turns = <<2, 3>>

\* The monster whose attack killed the player in this step's log, 0 if none.
Killer(lg) ==
    LET ks == {k \in 1 .. Len(lg) : lg[k].ev = "You died!"}
    IN  IF ks = {} THEN 0
        ELSE lg[CHOOSE j \in 1 .. Len(lg) :
                   /\ lg[j].ev = "attacks for"
                   /\ lg[j].tgt = player
                   /\ \E k \in ks : j < k
                   /\ \A i \in 1 .. Len(lg) :
                         (lg[i].ev = "attacks for" /\ \E k \in ks : i < k)
                            => i <= j].who

\* C8: once the player dies during the monsters' phase of a turn, no
\* monster later in registry order moves or attacks during the rest of
\* that turn or in any later turn.
C8_NoTurnAfterDeath ==
    [][/\ (game_state = "playing" /\ game_state' = "dead") =>
             \A j \in 1 .. Len(objects) :
                j > Killer(log') => objects'[j] = objects[j]
       /\ game_state = "dead" => objects' = objects]_vars

\* C9: the visibility field is recomputed at a render if and only if the
\* player's position changed since the previous render; a movement intent
\* that is blocked or that resolves as an attack does not mark visibility
\* dirty.
C9_RecomputeIffMoved ==
    [][/\ (pc = "render" /\ pc' = "keys" /\ IsSome(render_pos)) =>
             (HasEvent(log', "map_compute_fov")
                 <=> Pos(objects, player) # Get(render_pos))
       /\ (pc = "keys" /\ Pos(objects', player) = Pos(objects, player)) =>
             fov_recompute' = fov_recompute]_vars

\* C10: at every render the in-FOV set used for drawing is the one computed
\* from the player's current position.
C10_FovIsCurrent ==
    pc = "keys" =>
       fov_map = map_compute_fov(map, objects[player].x, objects[player].y,
                                 TORCH_RADIUS)

\* A render that kept the field it had, after the player has killed a monster
\* and so has acted without moving.
C10_Witness ==
    /\ pc = "keys"
    /\ log = <<>>
    /\ fired # {}
    /\ fov_map # {}

\* What the player sees from where it stands now.
SeenNow == map_compute_fov(map, objects[player].x, objects[player].y, TORCH_RADIUS)

\* The monsters that moved or attacked in this step.
Acted ==
    {k \in WithAI(objects) :
        \/ Pos(objects', k) # Pos(objects, k)
        \/ \E j \in 1 .. Len(log') :
              log'[j].who = k /\ log'[j].ev \in {"attacks for", "no effect"}}

\* C11: in the monsters' phase a monster moves or attacks only if its cell
\* is visible from the position the player has at that moment, after the
\* player's move of that turn; a monster that is not visible from there
\* takes no action.
C11_ActsOnlyIfSeenNow ==
    [][pc = "monsters" => \A k \in Acted : Pos(objects, k) \in SeenNow]_vars

\* The monsters that this step's log takes to hp <= 0.
Slain(lg) ==
    {lg[k].who : k \in {j \in 1 .. Len(lg) :
                           /\ lg[j].ev = "take_damage"
                           /\ lg[j].hp <= 0
                           /\ lg[j].who # player}}

\* C12: once a monster's hp has reached <= 0, in that step and in every
\* later state it has no Fighter and no AI and does not block, it is still
\* in the registry at the same index and position, it is never again the
\* target of an attack of the player, and it never takes a turn.
C12_DeadMonsterInert ==
    /\ [](\A i \in fired \ {player} :
             /\ i \in 1 .. Len(objects)
             /\ objects[i].fighter = None
             /\ objects[i].ai = None
             /\ ~objects[i].blocks
             /\ \A k \in 1 .. Len(turns) : turns[k] # i)
    /\ [][/\ Len(objects') = Len(objects)
          /\ pc \in {"keys", "monsters"} =>
                \A i \in Slain(log') :
                   /\ i \in fired' \ fired
                   /\ Pos(objects', i) = Pos(objects, i)
          /\ \A i \in fired \ {player} :
                /\ objects'[i] = objects[i]
                /\ pc \in {"keys", "monsters"} =>
                      \A k \in 1 .. Len(log') :
                         /\ log'[k].tgt # i
                         /\ log'[k].who # i]_vars

\* The player stands on the remains of the monster it has killed, and the
\* other monster has had its turn since.
C12_Witness ==
    /\ pc = "render"
    /\ 2 \in fired
    /\ Pos(objects, player) = Pos(objects, 2)
    /\ turns = <<3>>

\* C13: after make_map, no two distinct accepted rooms intersect under the
\* inclusive test a.x1 <= b.x2 /\ a.x2 >= b.x1 /\ a.y1 <= b.y2 /\ a.y2 >= b.y1,
\* whatever the random draws.
C13_RoomsApart ==
    pc = "generated" =>
       \A i, j \in 1 .. Len(rooms) :
          i # j =>
             ~(/\ rooms[i].x1 <= rooms[j].x2
               /\ rooms[i].x2 >= rooms[j].x1
               /\ rooms[i].y1 <= rooms[j].y2
               /\ rooms[i].y2 >= rooms[j].y1)

\* make_map has ended with three rooms.
C13_Witness ==
    /\ pc = "generated"
    /\ Len(rooms) = 3

\* The unblocked cells next to a cell, in the four directions.
Around(m, c) ==
    {d \in {<<c[1] - 1, c[2]>>, <<c[1] + 1, c[2]>>,
             <<c[1], c[2] - 1>>, <<c[1], c[2] + 1>>} :
        d \in Cells /\ ~m[d].blocked}

\* The cells a walk over unblocked tiles reaches from the cells of seen,
\* those of edge being the ones reached last.
RECURSIVE Flood(_, _, _)
Flood(m, seen, edge) ==
    LET more == UNION {Around(m, c) : c \in edge} \ seen
    IN  IF more = {} THEN seen ELSE Flood(m, seen \cup more, more)

\* C14: after make_map, whatever the random draws, the center of every
\* accepted room is reached from the center of the first accepted room by
\* a path of 4-adjacent unblocked tiles.
C14_CentersConnected ==
    (pc = "generated" /\ Len(rooms) >= 1) =>
       LET first == <<(rooms[1].x1 + rooms[1].x2) \div 2,
                      (rooms[1].y1 + rooms[1].y2) \div 2>>
           reached == Flood(map, {first}, {first})
       IN  /\ ~map[first].blocked
           /\ \A k \in 1 .. Len(rooms) :
                 <<(rooms[k].x1 + rooms[k].x2) \div 2,
                   (rooms[k].y1 + rooms[k].y2) \div 2>> \in reached

\* make_map has ended with three rooms, the third in neither the row nor
\* the column of the second, so that its tunnel turns a corner.
C14_Witness ==
    /\ pc = "generated"
    /\ Len(rooms) = 3
    /\ center(rooms[3])[1] # center(rooms[2])[1]
    /\ center(rooms[3])[2] # center(rooms[2])[2]

\* The cells strictly inside a rectangle.
Interior(room) ==
    {c \in Cells : /\ room.x1 < c[1] /\ c[1] < room.x2
                   /\ room.y1 < c[2] /\ c[2] < room.y2}

\* C16: the first pass of make_map always accepts its room and carves no
\* tunnel for it, and after generation the player stands on an unblocked
\* tile, the integer center of the first accepted room; a make_map of one
\* pass leaves exactly one room, and the carved tiles are exactly its
\* interior.
C16_FirstRoom ==
    /\ (pc \in {"make_map", "generated"} /\ attempts >= 1) =>
          /\ Len(rooms) >= 1
          /\ objects[player].x = (rooms[1].x1 + rooms[1].x2) \div 2
          /\ objects[player].y = (rooms[1].y1 + rooms[1].y2) \div 2
          /\ ~map[<<objects[player].x, objects[player].y>>].blocked
    /\ (pc \in {"make_map", "generated"} /\ attempts = 1) =>
          /\ Len(rooms) = 1
          /\ {c \in Cells : ~map[c].blocked} = Interior(rooms[1])

\* The first pass has drawn a room whose center is not a whole number
\* before the division rounds it.
C16_Witness ==
    /\ pc = "make_map"
    /\ attempts = 1
    /\ Len(rooms) = 1
    /\ (rooms[1].x1 + rooms[1].x2) % 2 = 1

\* C15: every tile access at coordinates outside [0, width) x [0, height)
\* fails with an out-of-bounds error and is never resolved to a tile of the
\* grid; is_blocked(-1, y) and is_blocked(x, -1) fail rather than return the
\* state of a tile on the opposite edge.
C15_OutsideFails ==
    \A k \in 1 .. Len(log) :
       (log[k].ev = "is_blocked" /\ <<log[k].x, log[k].y>> \notin Cells) =>
          log[k].ret = "IndexError"

\* C17: a movement intent while playing does exactly one of three things:
\* if an entity with a Fighter is in the target cell, that entity is
\* attacked and the player stays where it is; otherwise, if the target cell
\* is not blocked, the player moves to it and nobody's hp changes;
\* otherwise nothing about the player or any monster changes before the
\* monsters' phase.
C17_MoveOrAttack ==
    [][(pc = "keys" /\ game_state = "playing" /\ intent'.key \in MoveKeys) =>
          LET tx == objects[player].x + KeyDx(intent'.key)
              ty == objects[player].y + KeyDy(intent'.key)
              targets == {i \in 1 .. Len(objects) :
                             /\ IsSome(objects[i].fighter)
                             /\ Pos(objects, i) = <<tx, ty>>}
              blocked == \/ map[<<tx, ty>>].blocked
                         \/ \E i \in 1 .. Len(objects) :
                               objects[i].blocks /\ Pos(objects, i) = <<tx, ty>>
          IN  /\ Len(objects') = Len(objects)
              /\ targets # {} =>
                    /\ objects'[player] = objects[player]
                    /\ \E t \in targets :
                          /\ \E k \in 1 .. Len(log') :
                                /\ log'[k].ev \in {"attacks for", "no effect"}
                                /\ log'[k].who = player
                                /\ log'[k].tgt = t
                          /\ \A j \in 1 .. Len(objects) :
                                j # t => objects'[j] = objects[j]
              /\ (targets = {} /\ ~blocked) =>
                    /\ objects' = [objects EXCEPT ![player].x = tx,
                                                  ![player].y = ty]
                    /\ log' = <<>>
              /\ (targets = {} /\ blocked) =>
                    /\ objects' = objects
                    /\ log' = <<>>]_vars

\* The player has attacked the monster next to it and stands where it stood.
C17_Witness ==
    /\ pc = "monsters"
    /\ intent.state = "playing"
    /\ intent.key \in MoveKeys
    /\ \E k \in 1 .. Len(log) :
          log[k].ev = "attacks for" /\ log[k].who = player
    /\ IsSome(render_pos)
    /\ Get(render_pos) = Pos(objects, player)

\* The larger of the two coordinate differences between two objects.
Chebyshev(objs, i, j) ==
    Max(Abs(objs[i].x - objs[j].x), Abs(objs[i].y - objs[j].y))

\* C18: for a monster and a player at Euclidean distance >= 2, the step
\* that move_towards computes has both components in {-1, 0, 1}, is never
\* (0, 0), and each non-zero component has the sign of the same component
\* of the vector to the player; the monster moves by that step if the
\* target cell is not blocked and stays where it is otherwise; so a hunting
\* turn never increases the monster's Chebyshev distance to the player.
C18_StepTowards ==
    [][pc = "hunt" =>
          LET vx == objects[player].x - objects[hunter].x
              vy == objects[player].y - objects[hunter].y
              sx == log'[1].dx
              sy == log'[1].dy
              tx == objects[hunter].x + sx
              ty == objects[hunter].y + sy
              free == /\ ~map[<<tx, ty>>].blocked
                      /\ \A i \in 1 .. Len(objects) :
                            ~(objects[i].blocks /\ Pos(objects, i) = <<tx, ty>>)
          IN  /\ vx * vx + vy * vy >= 4
              /\ sx \in {-1, 0, 1}
              /\ sy \in {-1, 0, 1}
              /\ <<sx, sy>> # <<0, 0>>
              /\ sx # 0 => sx = Sign(vx)
              /\ sy # 0 => sy = Sign(vy)
              /\ objects' = IF free
                            THEN [objects EXCEPT ![hunter].x = tx, ![hunter].y = ty]
                            ELSE objects
              /\ Chebyshev(objects', hunter, player)
                    <= Chebyshev(objects, hunter, player)]_vars

\* A step along one axis only has been computed for a monster that shares
\* neither the row nor the column of the player, and has been taken.
C18_Witness ==
    /\ pc = "hunt"
    /\ Len(log) = 1
    /\ log[1].ev = "move_towards"
    /\ log[1].dx # 0
    /\ log[1].dy = 0
    /\ objects[hunter].y # objects[player].y
    /\ Chebyshev(objects, hunter, player) = 2

\* The places in a log where something is done to the player's Fighter.
OnPlayer(lg) ==
    {k \in 1 .. Len(lg) :
        /\ lg[k].tgt = player
        /\ lg[k].ev \in {"attacks for", "no effect", "take_damage", "You died!"}}

\* C19: in a run of the turn loop the player's death handler is invoked at
\* most once: after the player's hp has reached <= 0, no monster attacks
\* the player again, neither later in the same monsters' phase nor in any
\* later turn.
C19_PlayerDiesOnce ==
    [][(pc = "keys" \/ pc = "monsters") =>
          LET deaths == {k \in 1 .. Len(log') : log'[k].ev = "You died!"}
          IN  /\ Hp(objects, player) <= 0 => OnPlayer(log') = {}
              /\ Cardinality(deaths) <= 1
              /\ deaths # {} => Hp(objects, player) > 0
              /\ \A j \in deaths : \A k \in OnPlayer(log') : ~(k > j)]_vars

\* The first monster has killed the player, and the second, next to the
\* player, has had its turn after that.
C19_Witness ==
    /\ pc = "render"
    /\ game_state = "dead"
    /\ turns = <<2, 3>>
    /\ Killer(log) = 2
    /\ Chebyshev(objects, 3, player) <= 1

\* C20: in every state from the end of generation on, no two blocking
\* entities (the player and the live monsters) are on the same cell and no
\* blocking entity stands on a blocked tile; no monster spawned by the
\* generation shares the cell the player is placed on, and no move ends on
\* a cell that another blocking entity occupies.
C20_OnePerCell ==
    (pc = "generated" \/ pc = "render" \/ pc = "keys" \/ pc = "monsters") =>
       \A i \in 1 .. Len(objects) :
          objects[i].blocks =>
             /\ ~map[Pos(objects, i)].blocked
             /\ \A j \in 1 .. Len(objects) :
                   (j # i /\ objects[j].blocks) =>
                      Pos(objects, j) # Pos(objects, i)

\* The tiles on the outer border of the grid.
Border ==
    {c \in Cells : \/ c[1] \in {0, MAP_WIDTH - 1}
                   \/ c[2] \in {0, MAP_HEIGHT - 1}}

\* C21: in every generation run the carving of rooms and tunnels touches
\* only tiles with 1 <= x <= width - 2 and 1 <= y <= height - 2, so every
\* tile of the outer border stays blocked; hence, once a room has been
\* accepted, neither the player nor a monster stands on a border tile, and
\* the is_blocked query of any move they make has its coordinates inside
\* [0, width) x [0, height).
C21_BorderStaysBlocked ==
    /\ \A c \in Border : map[c].blocked /\ map[c].block_sight
    /\ (pc # "combat" /\ Len(rooms) >= 1) =>
          \A i \in 1 .. Len(objects) :
             /\ Pos(objects, i) \in Cells \ Border
             /\ \A dx, dy \in -1 .. 1 :
                   /\ 0 <= objects[i].x + dx
                   /\ objects[i].x + dx < MAP_WIDTH
                   /\ 0 <= objects[i].y + dy
                   /\ objects[i].y + dy < MAP_HEIGHT

\* make_map has ended with three rooms, one of them against the left wall
\* of the grid and one against the right, and a monster in one of them.
C21_Witness ==
    /\ pc = "generated"
    /\ Len(rooms) = 3
    /\ \E k \in 1 .. 3 : rooms[k].x1 = 0
    /\ \E k \in 1 .. 3 : rooms[k].x2 = MAP_WIDTH - 1
    /\ Len(objects) = 2

====
